---- MODULE Spec2Model ----
(***************************************************************************)
(* Model of model_fit_exp3.py: the per-condition driver loop, the primary  *)
(* selection loop of correlation_report_3 and the least-squares solve.     *)
(*                                                                         *)
(* Arithmetic is exact: a real number is a fraction of integers, a         *)
(* non-finite float (inf, NaN) is a flag.  Row indices keep Python's       *)
(* values (0-based, negative indices wrap as numpy wraps them); TLA+       *)
(* sequences are 1-based, so Python index k is position k + 1.             *)
(***************************************************************************)
EXTENDS Integers, Sequences, FiniteSets, TLC

\* ------------------------------------------------------------------ bounds

\* Number of rows (channels) of a training matrix; the script lists 36.
NumRows == 3

\* The iteration counter `iters` (not a variable of the code) saturates here.
MaxIters == NumRows + 2

\* ----------------------------------------------------------- integer helpers

Abs(x) == IF x < 0 THEN -x ELSE x

RECURSIVE Gcd(_, _)
Gcd(a, b) == IF b = 0 THEN Abs(a) ELSE Gcd(b, a % Abs(b))

RECURSIVE SumTo(_, _)
\* f[1] + ... + f[k]
SumTo(f, k) == IF k = 0 THEN 0 ELSE f[k] + SumTo(f, k - 1)

Sum(f) == SumTo(f, Len(f))

Dot(a, b) == Sum([t \in 1..Len(a) |-> a[t] * b[t]])

RECURSIVE GcdTo(_, _)
GcdTo(f, k) == IF k = 0 THEN 0 ELSE Gcd(f[k], GcdTo(f, k - 1))

\* gcd of all entries of a sequence (0 for the zero sequence)
GcdSeq(f) == GcdTo(f, Len(f))

\* ------------------------------------------------------------ linear algebra

\* the matrix without row r and column c
Minor(G, r, c) ==
    [a \in 1..(Len(G) - 1) |->
        [b \in 1..(Len(G) - 1) |->
            G[IF a < r THEN a ELSE a + 1][IF b < c THEN b ELSE b + 1]]]

Sign(k) == IF k % 2 = 0 THEN 1 ELSE -1

RECURSIVE Det(_)
Det(G) ==
    IF Len(G) = 0 THEN 1
    ELSE IF Len(G) = 1 THEN G[1][1]
    ELSE Sum([c \in 1..Len(G) |-> Sign(1 + c) * G[1][c] * Det(Minor(G, 1, c))])

\* adjugate: G * Adj(G) = Det(G) * I
Adj(G) ==
    [r \in 1..Len(G) |->
        [c \in 1..Len(G) |-> Sign(r + c) * Det(Minor(G, c, r))]]

\* row vector times matrix
VecMat(y, B) == [c \in 1..Len(B[1]) |-> Sum([r \in 1..Len(y) |-> y[r] * B[r][c]])]

Transpose(B) == [c \in 1..Len(B[1]) |-> [r \in 1..Len(B) |-> B[r][c]]]

\* B * B^T
Gram(B) == [r \in 1..Len(B) |-> [c \in 1..Len(B) |-> Dot(B[r], B[c])]]

\* ------------------------------------------------------------ configuration

\* Rows a training matrix is built from.  RampU and StateX are the control
\* ramp and the state x[t+1] = 0.8 x[t] + 0.5 u[t] (x[0] = 0), scaled so that
\* every sample is an integer.
RampU == <<0, 10, 20, 30>>

StateX == <<0, 0, 5, 14>>

NumSamples == Len(RampU)

ConstRow == [t \in 1..NumSamples |-> 1]

AltRow == [t \in 1..NumSamples |-> (t - 1) % 2]

StepRow == [t \in 1..NumSamples |-> IF 2 * t > NumSamples THEN 1 ELSE 0]

ChannelPool == {ConstRow, AltRow, StepRow, RampU, StateX}

\* every matrix the external builder can hand over for a condition
TrainingMatrices == [1..NumRows -> ChannelPool]

\* names of training channels (the script's direct_states)
AllNames == <<"p", "q", "r", "ax", "ay", "az", "bgx">>

train_states == SubSeq(AllNames, 1, NumRows)

conditions == <<"flaps=0", "flaps=0.5">>

\* the lists the script may be configured with as states to predict
OutputConfigs == {<<>>} \cup {<<train_states[k]>> : k \in 1..NumRows}

\* list.index: the 0-based position of the first occurrence
Index(seq, s) == (CHOOSE k \in 1..Len(seq) :
                    seq[k] = s /\ \A m \in 1..(k - 1) : seq[m] # s) - 1

\* ------------------------------------------------------------------- numpy

\* numpy's row indexing: a negative index counts from the end
Resolve(j, n) == IF j < 0 THEN n + j ELSE j

RowAt(td, j) == td[Resolve(j, Len(td)) + 1]

\* sorted(incl) as a sequence of Python indices
RECURSIVE Sorted(_)
Sorted(S) ==
    IF S = {} THEN <<>>
    ELSE LET m == CHOOSE x \in S : \A y \in S : x <= y
         IN  <<m>> \o Sorted(S \ {m})

\* traindata[includes,:]
SubMatrix(td, includes) == [k \in 1..Len(includes) |-> RowAt(td, includes[k])]

\* a finite real vector num/den, or a vector of inf/NaN
Finite(num, den) ==
    LET g == Gcd(den, GcdSeq(num))
    IN  [finite |-> TRUE, num |-> [k \in 1..Len(num) |-> num[k] \div g], den |-> den \div g]

NonFinite(len) == [finite |-> FALSE, num |-> [k \in 1..len |-> 0], den |-> 1]

\* Len(a) * Len(a) times the covariance of two rows
Cov(a, b) == Len(a) * Dot(a, b) - Sum(a) * Sum(b)

\* a row divided by the gcd of its entries: the same correlations, smaller
\* intermediate numbers
Primitive(v) ==
    IF GcdSeq(v) = 0 THEN v ELSE [t \in 1..Len(v) |-> v[t] \div GcdSeq(v)]

\* corr[-1, j] of np.corrcoef(vstack([traindata, error])): NaN when either
\* row has zero variance (0/0) or the error row holds inf/NaN; otherwise its
\* square is sq / (var * v) with v > 0 the same for every j.
CorrToError(td, err, j) ==
    LET x == Primitive(RowAt(td, j))
        e == Primitive(err.num)
    IN  IF ~err.finite \/ Cov(x, x) = 0 \/ Cov(e, e) = 0
        THEN [nan |-> TRUE, sq |-> 0, var |-> 1]
        ELSE [nan |-> FALSE, sq |-> Cov(x, e) * Cov(x, e), var |-> Cov(x, x)]

\* abs(c) > abs(m) for two correlations to the same error row; a comparison
\* with NaN is False
AbsGreater(c, m) == ~c.nan /\ ~m.nan /\ c.sq * m.var > m.sq * c.var

ZeroCorr == [nan |-> FALSE, sq |-> 0, var |-> 1]

\* --------------------------------------------------------------------- solve

\* X = traindata[:,:-1]
SolveX(td) == [r \in 1..Len(td) |-> SubSeq(td[r], 1, Len(td[r]) - 1)]

\* Y taken at the same samples as X, without the one-sample shift
SolveYSameSamples(i, td) == SubSeq(td[i + 1], 1, Len(td[i + 1]) - 1)

\* Y = traindata[i,1:]
SolveY(i, td) == SubSeq(td[i + 1], 2, Len(td[i + 1]))

\* The reduced SVD of X (M x K) has min(M, K) singular values; the product of
\* their squares is det(X X^T) when M <= K and det(X^T X) otherwise.
SquaredSingularProduct(X) ==
    IF Len(X) <= Len(X[1]) THEN Det(Gram(X)) ELSE Det(Gram(Transpose(X)))

HasZeroSingularValue(td) == SquaredSingularProduct(SolveX(td)) = 0

\* A = Y @ (v * (1/s)) @ u.T.  With every singular value nonzero this is
\* Y times the pseudo-inverse of X: X^T (X X^T)^-1 for M <= K and
\* (X^T X)^-1 X^T otherwise.  With a zero singular value 1/s holds inf
\* (numpy divides by zero with a warning, it does not raise) and every entry
\* of A is inf or NaN.
solve(i, td) ==
    LET X == SolveX(td)
        Y == SolveY(i, td)
        d == SquaredSingularProduct(X)
    IN  IF d = 0 THEN NonFinite(Len(X))
        ELSE IF Len(X) <= Len(X[1])
        THEN Finite(VecMat(VecMat(Y, Transpose(X)), Adj(Gram(X))), d)
        ELSE Finite(VecMat(VecMat(Y, Adj(Gram(Transpose(X)))), Transpose(X)), d)

\* error = -traindata[i,:]
InitialError(td, i) == Finite([t \in 1..Len(RowAt(td, i)) |-> -RowAt(td, i)[t]], 1)

\* est = A @ traindata[includes,:]; error = traindata[i,:] - est
Residual(td, i, op, sub) ==
    LET target == RowAt(td, i)
    IN  IF ~op.finite THEN NonFinite(Len(target))
        ELSE Finite([t \in 1..Len(target) |->
                        op.den * target[t]
                          - Sum([m \in 1..Len(sub) |-> op.num[m] * sub[m][t]])],
                    op.den)

\* --------------------------------------------------- correlation_report_3

\* rem: every index but i
InitialRem(i) == {j \in 0..(Len(train_states) - 1) : j # i}

\* the scan for j in range(len(train_states)), from index j on, with the
\* running max_index and max_abs
RECURSIVE ScanFrom(_, _, _, _, _, _)
ScanFrom(td, err, inc, j, mi, ma) ==
    IF j >= Len(train_states) THEN mi
    ELSE IF j \in inc THEN ScanFrom(td, err, inc, j + 1, mi, ma)
    ELSE IF AbsGreater(CorrToError(td, err, j), ma)
         THEN ScanFrom(td, err, inc, j + 1, j, CorrToError(td, err, j))
         ELSE ScanFrom(td, err, inc, j + 1, mi, ma)

\* max_index = -1; max_abs = 0; the scan
MaxCorrelationIndex(td, err, inc) == ScanFrom(td, err, inc, 0, -1, ZeroCorr)

\* the target taken to be the first included row
ParamIndexFirst(incs, i) == 0

\* param_index = includes.index(i)
ParamIndex(incs, i) == Index(incs, i)

\* --------------------------------------------------------------------- state

VARIABLES
    pc,              \* where the script is
    output_states,   \* the configured states to predict
    root_dict,       \* the model structure to save
    cond_i,          \* number of conditions the loop at the bottom has entered
    condition_dict,  \* the record built for the current condition
    traindata,       \* the current condition's matrix
    i,               \* index of the target row
    error,           \* the residual-error row
    incl,            \* the included set
    rem,             \* the set built beside incl
    max_index,       \* the row the last scan chose
    includes,        \* sorted(incl) of the last refit
    param_index,     \* the target's index handed to solve
    A,               \* the operator solve returned
    ranked,          \* the channels the second pass has printed for this target
    iters            \* iterations of the while loop begun for this target

vars == <<pc, output_states, root_dict, cond_i, condition_dict, traindata, i,
          error, incl, rem, max_index, includes, param_index, A, ranked, iters>>

NoOperator == [finite |-> TRUE, num |-> <<>>, den |-> 1]

Init ==
    /\ pc = "conditions"
    /\ output_states \in OutputConfigs
    /\ root_dict = [rows |-> Len(output_states), conditions |-> <<>>]
    /\ cond_i = 0
    /\ condition_dict = [condition |-> "none"]
    /\ traindata = <<>>
    /\ i = 0
    /\ error = NoOperator
    /\ incl = {}
    /\ rem = {}
    /\ max_index = -1
    /\ includes = <<>>
    /\ param_index = 0
    /\ A = NoOperator
    /\ ranked = <<>>
    /\ iters = 0

\* One pass of "for i, cond in enumerate(conditions)" down to the first
\* statement of the while loop: the record is built, the matrix read, and
\* correlation_report_3 entered.  With no state to predict the call returns at
\* once and the loop moves on; nothing is appended to root_dict["conditions"].
EvaluateCondition ==
    /\ pc = "conditions"
    /\ cond_i < Len(conditions)
    /\ \E td \in TrainingMatrices :
         /\ traindata' = td
         /\ IF output_states = <<>>
            THEN /\ pc' = "conditions"
                 /\ UNCHANGED <<i, error, incl, rem, iters>>
            ELSE /\ pc' = "select"
                 /\ i' = Index(train_states, output_states[1])
                 /\ error' = InitialError(td, i')
                 /\ incl' = {i'}
                 /\ rem' = InitialRem(i')
                 /\ iters' = 0
    /\ condition_dict' = [condition |-> conditions[cond_i + 1]]
    /\ cond_i' = cond_i + 1
    /\ UNCHANGED <<output_states, root_dict, max_index, includes, param_index, A, ranked>>

\* The first half of an iteration of "while True": the correlation to the
\* error row, the scan, incl.add(max_index).
Select ==
    /\ pc = "select"
    /\ max_index' = MaxCorrelationIndex(traindata, error, incl)
    /\ incl' = incl \cup {max_index'}
    /\ iters' = IF iters < MaxIters THEN iters + 1 ELSE iters
    /\ pc' = "refit"
    /\ UNCHANGED <<output_states, root_dict, cond_i, condition_dict, traindata, i,
                   error, rem, includes, param_index, A, ranked>>

\* The second half: sorted(incl), the target's index in it, solve, the new
\* error row.  "while True" has no break, return or raise: control goes back
\* to the loop's first statement.  The second pass written after the loop
\* (the ranking printed channel by channel) and the next state to predict are
\* therefore never reached, and no action assigns `ranked`.
Refit ==
    /\ pc = "refit"
    /\ includes' = Sorted(incl)
    /\ param_index' = ParamIndex(includes', i)
    /\ A' = solve(param_index', SubMatrix(traindata, includes'))
    /\ error' = Residual(traindata, i, A', SubMatrix(traindata, includes'))
    /\ pc' = "select"
    /\ UNCHANGED <<output_states, root_dict, cond_i, condition_dict, traindata, i,
                   incl, rem, max_index, ranked, iters>>

\* The SVD raises (numpy's LinAlgError when the factorization does not
\* converge; dask evaluates it at the first compute()).  The script has no
\* try/except: the exception leaves solve, correlation_report_3 and the loop
\* over the conditions, and the script ends.
SvdRaises ==
    /\ pc = "refit"
    /\ includes' = Sorted(incl)
    /\ param_index' = ParamIndex(includes', i)
    /\ pc' = "crashed"
    /\ UNCHANGED <<output_states, root_dict, cond_i, condition_dict, traindata, i,
                   error, incl, rem, max_index, A, ranked, iters>>

\* The loop over the conditions is exhausted: the script ends.
ScriptEnd ==
    /\ pc = "conditions"
    /\ cond_i = Len(conditions)
    /\ pc' = "done"
    /\ UNCHANGED <<output_states, root_dict, cond_i, condition_dict, traindata, i,
                   error, incl, rem, max_index, includes, param_index, A, ranked,
                   iters>>

Next == EvaluateCondition \/ Select \/ Refit \/ SvdRaises \/ ScriptEnd

Spec == Init /\ [][Next]_vars

\* A change of position: what every step of Next does to pc and cond_i.
Advance ==
    \/ /\ pc = "conditions" /\ cond_i < Len(conditions)
       /\ cond_i' = cond_i + 1 /\ pc' \in {"conditions", "select"}
    \/ /\ pc = "conditions" /\ cond_i = Len(conditions)
       /\ cond_i' = cond_i /\ pc' = "done"
    \/ pc = "select" /\ cond_i' = cond_i /\ pc' = "refit"
    \/ pc = "refit" /\ cond_i' = cond_i /\ pc' \in {"select", "crashed"}

\* The script is one sequential thread: the interpreter always runs the next
\* statement, so control never rests at a position it can leave.  (Next is
\* enabled wherever Advance is; stated on the position alone so that the
\* fairness condition does not recompute the numerics.)
FairSpec == Spec /\ WF_<<pc, cond_i>>(Advance)

\* -------------------------------------------------------------------- claims

InLoop == pc \in {"select", "refit"}

\* solve has returned to the loop at least once for this target
SolveReturned == pc = "select" /\ iters > 0

ZeroVariance(row) == Cov(row, row) = 0

\* the rows the scan does not skip
NotIncluded == {j \in 0..(Len(train_states) - 1) : j \notin incl}

\* C1: for a target the primary loop begins at most n - 1 iterations (one per
\* candidate row) and then stops.
C1_AtMostOneIterationPerCandidate == InLoop => iters <= Len(train_states) - 1

\* C2: the evaluation of every configured condition is eventually started,
\* whatever happens while an earlier condition is processed.
C2_EveryConditionStarted == \A k \in 1..Len(conditions) : <>(cond_i >= k)

\* C3: when the run over the conditions completes, root_dict["conditions"]
\* holds one record per configured condition, in declaration order.
C3_OneRecordPerCondition ==
    pc = "done" =>
        /\ Len(root_dict.conditions) = Len(conditions)
        /\ \A k \in 1..Len(conditions) :
               root_dict.conditions[k].condition = conditions[k]

\* C4: the row an iteration adds to the included set never has zero variance.
C4_ZeroVarianceNeverAdded ==
    pc = "refit" => ~ZeroVariance(RowAt(traindata, max_index))

\* C5: whenever some row not yet included has a defined correlation to the
\* error row, the row an iteration adds is a row not yet included, no other
\* such row has a larger absolute correlation, and every such row of lower
\* index has a smaller one (an undefined correlation counts as smallest).
C5_Larger(c, m) == ~c.nan /\ (m.nan \/ c.sq * m.var > m.sq * c.var)

C5_AddsFirstMaximum ==
    [][(Select /\ \E j \in NotIncluded : ~CorrToError(traindata, error, j).nan)
         => /\ max_index' \in NotIncluded
            /\ \A k \in NotIncluded :
                 /\ ~C5_Larger(CorrToError(traindata, error, k),
                               CorrToError(traindata, error, max_index'))
                 /\ k < max_index' =>
                      C5_Larger(CorrToError(traindata, error, max_index'),
                                CorrToError(traindata, error, k))]_vars

\* C6: once a target's selection has begun, and unless the script stops on an
\* error, the second pass eventually prints a ranking that lists every row but
\* the target exactly once.
C6_IsFullRanking ==
    /\ Len(ranked) = Len(train_states) - 1
    /\ {ranked[k] : k \in 1..Len(ranked)} = {j \in 0..(Len(train_states) - 1) : j # i}

C6_RankingProduced == (pc = "select") ~> (C6_IsFullRanking \/ pc = "crashed")

\* C7: solve never returns an operator for a matrix whose X has a singular
\* value that is exactly zero.
C7_DegenerateFitNotReturned ==
    SolveReturned => ~HasZeroSingularValue(SubMatrix(traindata, includes))

\* C8: when solve returns for the included rows {x, u} with target x, where
\* x[t+1] = 0.8 x[t] + 0.5 u[t] and u is a linear ramp, the coefficient of A
\* on x is within 1e-3 of 0.8 and the one on u within 1e-3 of 0.5.
C8_Within(op, k, thousandths) ==
    Abs(1000 * op.num[k] - thousandths * op.den) <= op.den

C8_IsScenario ==
    /\ SolveReturned
    /\ Len(includes) = 2
    /\ RowAt(traindata, i) = StateX
    /\ {RowAt(traindata, includes[1]), RowAt(traindata, includes[2])} = {StateX, RampU}

C8_RecoversOperator ==
    C8_IsScenario =>
        /\ A.finite
        /\ \A k \in 1..2 :
             C8_Within(A, k, IF RowAt(traindata, includes[k]) = StateX THEN 800 ELSE 500)

C8_Witness == C8_IsScenario /\ param_index = 0 /\ A.finite /\ iters = 1

\* C9: the index handed to solve is the position of the target row i in the
\* included sub-matrix: row param_index of traindata[includes,:] is row i.
C9_Computed == SolveReturned \/ pc = "crashed"

C9_ParamIndexIsTarget ==
    C9_Computed =>
        /\ param_index \in 0..(Len(includes) - 1)
        /\ Resolve(includes[param_index + 1], Len(traindata)) = i
        /\ SubMatrix(traindata, includes)[param_index + 1] = RowAt(traindata, i)

C9_Witness == SolveReturned /\ Len(includes) >= 3 /\ param_index >= 1

\* C10: in the primary loop the included set contains i, holds only row
\* indices 0..n-1, and has grown by one new index with every iteration begun.
C10_IncludedSetInvariant ==
    InLoop =>
        /\ i \in incl
        /\ incl \subseteq 0..(Len(train_states) - 1)
        /\ iters < MaxIters => Cardinality(incl) = iters + 1

====
